---- MODULE Spec2Model ----
(***************************************************************************)
(* Model of pystv (src/election.py): a ranked-choice ballot counter.       *)
(* The script reads weighted ranked ballots, optionally normalises a pool  *)
(* of "exec" supervotes so that their mass equals the club's mass, removes *)
(* preemptively eliminated candidates and then eliminates one last-place   *)
(* candidate per round until at most `seats` candidates remain or the last *)
(* decisive round ends in a tie that may not be broken by chance.          *)
(*                                                                         *)
(* Decimal values (getcontext().prec = 5) are modelled as integers in      *)
(* units of 1/One, every arithmetic result rounded to Prec significant     *)
(* digits, ROUND_HALF_EVEN, as the decimal module does.                    *)
(***************************************************************************)
EXTENDS Integers, Sequences, FiniteSets

\* ------------------------------------------------------------------ bounds
NumCand == 3          \* candidates detected in the header: indices 0..NumCand-1
MaxBallots == 3       \* regular ballots of a run without exec votes
MaxExec == 3          \* exec superballots of a run with --exec-votes
MaxExecRegular == 2   \* regular ballots of a run with --exec-votes
MaxExecRank == 1      \* candidates ranked on a ballot of a run with --exec-votes
MaxRows == 2          \* rows of the input file while it is read
MaxRankValue == 3     \* the highest ordinal ("3rd choice") of a response

\* --------------------------------------------------------------- constants
Prec == 5             \* getcontext().prec
One == 1000000        \* Decimal("1.0"), in units of 10^-6
Zero == 0             \* Decimal("0.0")
None == -1            \* Python's None where a candidate index is expected

Candidates == 0 .. (NumCand - 1)

\* offices.OFFICES[office]["num_seats"]: every office has 1 or 2 seats
OfficeSeats == {1, 2}

VARIABLES
    pc,                   \* position of the script
    reader,               \* the rows of the input file the csv reader has not yet returned
    row,                  \* row: the responses of the row last read, one per candidate column
    seats,                \* seats (line 136)
    break_ties,           \* args.break_ties
    exec_requested,       \* args.exec_votes != None
    elim,                 \* args.elim, 1-indexed candidate numbers
    ballots,              \* ballots: sequence of Ballot objects
    exec_ballots,         \* exec_ballots (the same objects that are merged into ballots)
    real_mass,            \* real_mass
    to_eliminate,         \* to_eliminate, 0-indexed
    remaining_candidates, \* remaining_candidates
    count_round,          \* count_round
    votes,                \* votes of the last counted round, keyed by that round's remaining candidates
    eliminate,            \* eliminate of the last counted round
    winners,              \* the candidates printed as winners (lines 476-478)
    winners_reported,     \* whether the winners block (lines 475-480) was printed
    tie_reported,         \* whether "THE ELECTION ENDED IN A TIE" was printed (line 449)
    draws,                \* the indices returned so far by the seeded rng for rng.choice
    round_results         \* what each counted round printed: its votes and the candidate
                          \* chosen for elimination (None for the tie), lines 420-424, 449, 463

vars == <<pc, reader, row, seats, break_ties, exec_requested, elim, ballots, exec_ballots,
          real_mass, to_eliminate, remaining_candidates, count_round, votes,
          eliminate, winners, winners_reported, tie_reported, draws,
          round_results>>

\* ------------------------------------------------------- decimal arithmetic
\* 10^(d - Prec) for a d-digit x: the weight of the last kept digit.
RECURSIVE Pow10(_)
Pow10(n) == IF n = 0 THEN 1 ELSE 10 * Pow10(n - 1)

RECURSIVE Quantum(_)
Quantum(x) == IF x < Pow10(Prec) THEN 1 ELSE 10 * Quantum(x \div 10)

\* num/den rounded to a multiple of q, ties to the even multiple.
RoundHalfEven(num, den, q) ==
    LET d == den * q
        t == num \div d
        r == num % d
    IN  IF 2 * r > d \/ (2 * r = d /\ t % 2 = 1) THEN (t + 1) * q ELSE t * q

\* Decimal.__add__ under prec 5: the exact sum s, then one rounding
DecAdd(a, b) == CHOOSE r \in {RoundHalfEven(s, 1, Quantum(s)) : s \in {a + b}} : TRUE

\* Decimal.__truediv__ under prec 5, for a quotient of at least 0.01 (or 0)
DecDiv(m, k) ==
    CHOOSE r \in {RoundHalfEven(n, d, Quantum(n \div d)) : n \in {m}, d \in {k}} : TRUE

\* sum() over a sequence of Decimals, left to right
RECURSIVE DecSum(_)
DecSum(ws) ==
    IF ws = <<>> THEN Zero
    ELSE DecAdd(DecSum(SubSeq(ws, 1, Len(ws) - 1)), ws[Len(ws)])

\* ------------------------------------------------------------ the program
\* ballot.Ballot(timestamp, weight, rankings) for every row of a file; the
\* timestamp of row i is modelled as i
MakeBallots(rows, weight) ==
    [i \in 1 .. Len(rows) |-> [timestamp |-> i, weight |-> weight, rankings |-> rows[i]]]

\* the weights of a pool of ballots, in file order
Weights(bs) == [i \in 1 .. Len(bs) |-> bs[i].weight]

\* faulty variant of RealMass: the empty ballots are counted into the mass
RealMassAll(bs) == DecSum(Weights(bs))

\* faulty variant of NonEmpty: every ballot counts towards the mass
AnyBallot(b) == Len(b.rankings) >= 0

\* real_mass: the sum of the weights of the non-empty ballots (line 270)
NonEmpty(b) == Len(b.rankings) > 0

RealMass(bs) == DecSum(Weights(SelectSeq(bs, NonEmpty)))

\* faulty variant of DivisionRaises: the division by zero goes unnoticed
DivisionNeverRaises(k) == FALSE

\* real_mass / exec_votes raises when there is no exec ballot (line 355)
DivisionRaises(k) == k = 0

\* exec_weight = real_mass / exec_votes (lines 354-355)
ExecWeight(mass, k) == DecDiv(mass, k)

\* faulty variant of SetWeights: the ballots are built anew and lose their timestamps
SetWeightsRebuilt(bs, w) ==
    [i \in 1 .. Len(bs) |-> [timestamp |-> 0, weight |-> w, rankings |-> bs[i].rankings]]

\* for exec_ballot in exec_ballots: exec_ballot.weight = exec_weight (lines 358-359)
SetWeights(bs, w) == [i \in 1 .. Len(bs) |-> [bs[i] EXCEPT !.weight = w]]

\* faulty variant of ToEliminate: the numbers are not converted to 0-indexed
ToEliminateOneIndexed(e) == e

\* to_eliminate = [x - 1 for x in args.elim] (lines 367, 391)
ToEliminate(e) == {x - 1 : x \in e}

\* remaining_candidates = set(range(len(candidates))) - set(to_eliminate) (line 403)
InitialRemaining(cands, te) == cands \ te

\* faulty variant of LoopGuard: >= for >
LoopGuardAtLeast(remaining, s) == Cardinality(remaining) >= s

\* faulty variant of LoopGuard: the loop runs until no candidate remains
LoopGuardNonEmpty(remaining, s) == Cardinality(remaining) > 0

\* faulty variant of LoopGuard: the loop stops one candidate early
LoopGuardStopsEarly(remaining, s) == Cardinality(remaining) > s + 1

\* while len(remaining_candidates) > seats (line 405)
LoopGuard(remaining, s) == Cardinality(remaining) > s

\* faulty variant of FirstActive: the lowest-ranked still-remaining candidate
RECURSIVE LastActive(_, _)
LastActive(rankings, remaining) ==
    IF rankings = <<>> THEN None
    ELSE IF rankings[Len(rankings)] \in remaining THEN rankings[Len(rankings)]
    ELSE LastActive(SubSeq(rankings, 1, Len(rankings) - 1), remaining)

\* faulty variant of FirstActive: round r counts the r-th preference of a ballot
FirstActiveByRound(rankings, remaining) ==
    IF count_round \in 1 .. Len(rankings) /\ rankings[count_round] \in remaining
    THEN rankings[count_round] ELSE None

\* the highest-ranked still-remaining candidate of a ballot (lines 413-419)
RECURSIVE FirstActive(_, _)
FirstActive(rankings, remaining) ==
    IF rankings = <<>> THEN None
    ELSE IF Head(rankings) \in remaining THEN Head(rankings)
    ELSE FirstActive(Tail(rankings), remaining)

\* faulty variant of Tabulate: no break, every still-remaining candidate of a ballot
\* is given its weight
RECURSIVE TabulateNoBreak(_, _)
TabulateNoBreak(bs, remaining) ==
    IF bs = <<>> THEN [x \in remaining |-> Zero]
    ELSE LET prev == TabulateNoBreak(SubSeq(bs, 1, Len(bs) - 1), remaining)
             b == bs[Len(bs)]
         IN  [x \in remaining |->
                 IF \E i \in 1 .. Len(b.rankings) : b.rankings[i] = x
                 THEN DecAdd(prev[x], b.weight) ELSE prev[x]]

\* votes after counting the ballots bs, in order (lines 410-419)
RECURSIVE Tabulate(_, _)
Tabulate(bs, remaining) ==
    IF bs = <<>> THEN [x \in remaining |-> Zero]
    ELSE LET prev == Tabulate(SubSeq(bs, 1, Len(bs) - 1), remaining)
             b == bs[Len(bs)]
             candidate == FirstActive(b.rankings, remaining)
         IN  IF candidate = None THEN prev
             ELSE [prev EXCEPT ![candidate] = DecAdd(@, b.weight)]

\* faulty variant of LeastNumVotes: votes_desc[0][1], the most votes
MostNumVotes(v) ==
    CHOOSE m \in {v[x] : x \in DOMAIN v} : \A x \in DOMAIN v : v[x] <= m

\* least_num_votes = votes_desc[-1][1], votes_desc sorted by votes, descending
\* (lines 422-427)
LeastNumVotes(v) ==
    CHOOSE m \in {v[x] : x \in DOMAIN v} : \A x \in DOMAIN v : v[x] >= m

\* faulty variant of SetOrder: the set is iterated in descending order
RECURSIVE SetOrderDescending(_)
SetOrderDescending(S) ==
    IF S = {} THEN <<>>
    ELSE LET x == CHOOSE y \in S : \A z \in S : y >= z
         IN  <<x>> \o SetOrderDescending(S \ {x})

\* a set of small integers as Python iterates over it: in ascending order
RECURSIVE SetOrder(_)
SetOrder(S) ==
    IF S = {} THEN <<>>
    ELSE LET x == CHOOSE y \in S : \A z \in S : y <= z
         IN  <<x>> \o SetOrder(S \ {x})

\* faulty variant of LastPlaceCandidates: every candidate counts as tied for last
LastPlaceCandidatesAll(v, remaining) == SetOrder(remaining)

\* last_place_candidates (lines 429-430)
LastPlaceCandidates(v, remaining) ==
    LET IsLast(x) == v[x] = LeastNumVotes(v)
    IN  SelectSeq(SetOrder(remaining), IsLast)

\* faulty variant of Choice: the first of the tied candidates is always taken
ChoiceFirst(seq, i) == seq[1]

\* rng.choice(last_place_candidates), the rng returning the index i (line 443)
Choice(seq, i) == seq[i]

\* faulty variant of MayBreakTie: seats for seats + 1
MayBreakTieAtSeats(remaining, s, bt) == Cardinality(remaining) > s \/ bt

\* faulty variant of MayBreakTie: args.break_ties is not consulted
MayBreakTieNoFlag(remaining, s, bt) == Cardinality(remaining) > (s + 1)

\* len(remaining_candidates) > (seats + 1) or args.break_ties (line 441)
MayBreakTie(remaining, s, bt) == Cardinality(remaining) > (s + 1) \/ bt

\* faulty variants of ShowWinners: the winners are printed only for exactly `seats`
\* candidates; the winners are printed whatever remains
ShowWinnersExact(remaining, s) == Cardinality(remaining) = s

ShowWinnersAlways(remaining, s) == TRUE

\* if len(remaining_candidates) <= seats (line 475)
ShowWinners(remaining, s) == Cardinality(remaining) <= s

\* -------------------------------------------------------------- the inputs
Distinct(s) == \A i, j \in 1 .. Len(s) : i # j => s[i] # s[j]

\* the rankings a row can produce: distinct candidates, at most maxRank of them
Rankings(maxRank) ==
    {r \in UNION {[1 .. n -> Candidates] : n \in 0 .. maxRank} : Distinct(r)}

\* the files: at most maxLen rows
Rows(maxLen, maxRank) == UNION {[1 .. n -> Rankings(maxRank)] : n \in 0 .. maxLen}

Min(a, b) == IF a < b THEN a ELSE b

\* the state after both files were read (lines 161-265, 276-347) and before
\* real_mass is computed
Init ==
    /\ pc = "read"
    /\ reader = <<>>
    /\ row = <<>>
    /\ seats \in OfficeSeats
    /\ break_ties \in BOOLEAN
    /\ elim \in SUBSET (1 .. NumCand)
    /\ \/ /\ exec_requested = FALSE
          /\ \E rows \in Rows(MaxBallots, NumCand) : ballots = MakeBallots(rows, One)
          /\ exec_ballots = <<>>
       \/ /\ exec_requested = TRUE
          /\ \E rows \in Rows(MaxExecRegular, Min(MaxExecRank, NumCand)) :
                 ballots = MakeBallots(rows, One)
          /\ \E rows \in Rows(MaxExec, Min(MaxExecRank, NumCand)) :
                 exec_ballots = MakeBallots(rows, Zero)
    /\ real_mass = Zero
    /\ to_eliminate = {}
    /\ remaining_candidates = {}
    /\ count_round = 0
    /\ votes = <<>>
    /\ eliminate = None
    /\ winners = {}
    /\ winners_reported = FALSE
    /\ tie_reported = FALSE
    /\ draws = <<>>
    /\ round_results = <<>>

\* ------------------------------------------------------------- the actions
\* lines 270-275 when --exec-votes is absent
SkipExec ==
    /\ pc = "read"
    /\ ~exec_requested
    /\ real_mass' = RealMass(ballots)
    /\ pc' = "elim"
    /\ UNCHANGED <<reader, row, seats, break_ties, exec_requested, elim, ballots, exec_ballots,
                   to_eliminate, remaining_candidates, count_round, votes,
                   eliminate, winners, winners_reported, tie_reported, draws,
                   round_results>>

\* lines 270-365 with at least one exec ballot
NormalizeExec ==
    /\ pc = "read"
    /\ exec_requested
    /\ ~DivisionRaises(Len(exec_ballots))
    /\ real_mass' = RealMass(ballots)
    /\ exec_ballots' = SetWeights(exec_ballots, ExecWeight(real_mass', Len(exec_ballots)))
    /\ ballots' = ballots \o exec_ballots'
    /\ pc' = "elim"
    /\ UNCHANGED <<reader, row, seats, break_ties, exec_requested, elim, to_eliminate,
                   remaining_candidates, count_round, votes, eliminate, winners,
                   winners_reported, tie_reported, draws,
                   round_results>>

\* lines 270-355 with no exec ballot: the division raises and the script dies
NormalizeFails ==
    /\ pc = "read"
    /\ exec_requested
    /\ DivisionRaises(Len(exec_ballots))
    /\ real_mass' = RealMass(ballots)
    /\ pc' = "crashed"
    /\ UNCHANGED <<reader, row, seats, break_ties, exec_requested, elim, ballots, exec_ballots,
                   to_eliminate, remaining_candidates, count_round, votes,
                   eliminate, winners, winners_reported, tie_reported, draws,
                   round_results>>

\* lines 367-404
BeginCounting ==
    /\ pc = "elim"
    /\ to_eliminate' = ToEliminate(elim)
    /\ remaining_candidates' = InitialRemaining(Candidates, to_eliminate')
    /\ count_round' = 1
    /\ pc' = "loop"
    /\ UNCHANGED <<reader, row, seats, break_ties, exec_requested, elim, ballots, exec_ballots,
                   real_mass, votes, eliminate, winners, winners_reported,
                   tie_reported, draws,
                   round_results>>

\* lines 463-469
Remove(chosen) ==
    /\ eliminate' = chosen
    /\ round_results' = Append(round_results, [votes |-> votes', eliminate |-> chosen])
    /\ remaining_candidates' = remaining_candidates \ {chosen}
    /\ count_round' = count_round + 1
    /\ pc' = "loop"
    /\ UNCHANGED <<reader, row, seats, break_ties, exec_requested, elim, ballots, exec_ballots,
                   real_mass, to_eliminate, winners, winners_reported, tie_reported>>

\* one iteration with a single last-place candidate (lines 405-432, 460-469)
EliminateLast ==
    /\ pc = "loop"
    /\ LoopGuard(remaining_candidates, seats)
    /\ votes' = Tabulate(ballots, remaining_candidates)
    /\ LET last_place_candidates == LastPlaceCandidates(votes', remaining_candidates)
       IN  /\ ~(Len(last_place_candidates) > 1)
           /\ Remove(last_place_candidates[1])
    /\ UNCHANGED draws

\* one iteration with a tie for last place broken by chance (lines 405-443, 463-469)
BreakTie ==
    /\ pc = "loop"
    /\ LoopGuard(remaining_candidates, seats)
    /\ votes' = Tabulate(ballots, remaining_candidates)
    /\ LET last_place_candidates == LastPlaceCandidates(votes', remaining_candidates)
       IN  /\ Len(last_place_candidates) > 1
           /\ MayBreakTie(remaining_candidates, seats, break_ties)
           /\ \E i \in 1 .. Len(last_place_candidates) :
                  /\ draws' = Append(draws, i)
                  /\ Remove(Choice(last_place_candidates, i))

\* one iteration with a tie for last place that is not broken: break, then
\* lines 471-480 (lines 405-441, 444-459, 471-480)
EndInTie ==
    /\ pc = "loop"
    /\ LoopGuard(remaining_candidates, seats)
    /\ votes' = Tabulate(ballots, remaining_candidates)
    /\ LET last_place_candidates == LastPlaceCandidates(votes', remaining_candidates)
       IN  /\ Len(last_place_candidates) > 1
           /\ ~MayBreakTie(remaining_candidates, seats, break_ties)
    /\ eliminate' = None
    /\ round_results' = Append(round_results, [votes |-> votes', eliminate |-> None])
    /\ tie_reported' = TRUE
    /\ winners_reported' = ShowWinners(remaining_candidates, seats)
    /\ winners' = IF winners_reported' THEN remaining_candidates ELSE {}
    /\ pc' = "done"
    /\ UNCHANGED <<reader, row, seats, break_ties, exec_requested, elim, ballots, exec_ballots,
                   real_mass, to_eliminate, remaining_candidates, count_round, draws>>

\* the loop condition is false: lines 405, 471-480
Finish ==
    /\ pc = "loop"
    /\ ~LoopGuard(remaining_candidates, seats)
    /\ winners_reported' = ShowWinners(remaining_candidates, seats)
    /\ winners' = IF winners_reported' THEN remaining_candidates ELSE {}
    /\ pc' = "done"
    /\ UNCHANGED <<reader, row, seats, break_ties, exec_requested, elim, ballots, exec_ballots,
                   real_mass, to_eliminate, remaining_candidates, count_round,
                   votes, eliminate, tie_reported, draws,
                   round_results>>

Next ==
    \/ SkipExec
    \/ NormalizeExec
    \/ NormalizeFails
    \/ BeginCounting
    \/ EliminateLast
    \/ BreakTie
    \/ EndInTie
    \/ Finish

Spec == Init /\ [][Next]_vars

\* ------------------------------------------------- reading the input file
\* a response that ranks nothing: "No preference" or no ordinal (lines 199-206)
NoPreference == 0

\* the responses of a row: NoPreference or the number of an "n-th choice"
Responses == {NoPreference} \cup (1 .. MaxRankValue)

\* row[1:] of a row of the file: one response per candidate column
ResponseRows == [1 .. NumCand -> Responses]

\* the (candidate_index, rank) tuples appended in column order (lines 197-210)
RankedPairs(r) ==
    LET IsRanked(p) == p[2] # NoPreference
    IN  SelectSeq([i \in 1 .. Len(r) |-> <<i - 1, r[i]>>], IsRanked)

\* faulty variant of InsertByRank: equal ranks end up in reverse column order
RECURSIVE InsertBeforeEqual(_, _)
InsertBeforeEqual(sorted, p) ==
    IF sorted = <<>> THEN <<p>>
    ELSE IF sorted[Len(sorted)][2] < p[2] THEN Append(sorted, p)
    ELSE Append(InsertBeforeEqual(SubSeq(sorted, 1, Len(sorted) - 1), p),
                sorted[Len(sorted)])

\* one step of the stable sort by rank: p goes behind every tuple whose rank
\* is not greater (line 214)
RECURSIVE InsertByRank(_, _)
InsertByRank(sorted, p) ==
    IF sorted = <<>> THEN <<p>>
    ELSE IF sorted[Len(sorted)][2] <= p[2] THEN Append(sorted, p)
    ELSE Append(InsertByRank(SubSeq(sorted, 1, Len(sorted) - 1), p),
                sorted[Len(sorted)])

\* ballot_choices.sort(key=lambda x: x[1]) (line 214)
RECURSIVE SortByRank(_)
SortByRank(pairs) ==
    IF pairs = <<>> THEN <<>>
    ELSE InsertByRank(SortByRank(SubSeq(pairs, 1, Len(pairs) - 1)), pairs[Len(pairs)])

\* ballot_choices of a row (lines 196-246)
BallotChoices(r) ==
    LET sorted == SortByRank(RankedPairs(r))
    IN  [i \in 1 .. Len(sorted) |-> sorted[i][1]]

\* the state when the reader is first asked for a row (line 190)
ParseInit ==
    /\ pc = "reading"
    /\ reader \in UNION {[1 .. n -> ResponseRows] : n \in 0 .. MaxRows}
    /\ row = <<>>
    /\ seats \in OfficeSeats
    /\ break_ties = FALSE
    /\ elim = {}
    /\ exec_requested = FALSE
    /\ ballots = <<>>
    /\ exec_ballots = <<>>
    /\ real_mass = Zero
    /\ to_eliminate = {}
    /\ remaining_candidates = {}
    /\ count_round = 0
    /\ votes = <<>>
    /\ eliminate = None
    /\ winners = {}
    /\ winners_reported = FALSE
    /\ tie_reported = FALSE
    /\ draws = <<>>
    /\ round_results = <<>>

\* one iteration of the loop over the rows (lines 190-251)
ReadRow ==
    /\ pc = "reading"
    /\ reader # <<>>
    /\ row' = Head(reader)
    /\ reader' = Tail(reader)
    /\ ballots' = Append(ballots, [timestamp |-> Len(ballots) + 1, weight |-> One,
                                   rankings |-> BallotChoices(row')])
    /\ UNCHANGED <<pc, seats, break_ties, exec_requested, elim, exec_ballots,
                   real_mass, to_eliminate, remaining_candidates, count_round,
                   votes, eliminate, winners, winners_reported, tie_reported,
                   draws, round_results>>

\* the reader has no more rows (lines 190, 252-265)
EndOfFile ==
    /\ pc = "reading"
    /\ reader = <<>>
    /\ pc' = "read"
    /\ UNCHANGED <<reader, row, seats, break_ties, exec_requested, elim, ballots,
                   exec_ballots, real_mass, to_eliminate, remaining_candidates,
                   count_round, votes, eliminate, winners, winners_reported,
                   tie_reported, draws, round_results>>

ParseNext ==
    \/ ReadRow
    \/ EndOfFile

ParseSpec == ParseInit /\ [][ParseNext]_vars

\* the script never stops between two steps
\* the most candidates an exec ballot ranks in the runs that transfer exec weight
MaxTransferRank == 2

\* the state after both files were read, for runs without preemptive
\* eliminations whose exec ballots rank up to MaxTransferRank candidates, so
\* that an exec ballot's weight moves from an eliminated candidate to the next
TransferInit ==
    /\ pc = "read"
    /\ reader = <<>>
    /\ row = <<>>
    /\ seats \in OfficeSeats
    /\ break_ties \in BOOLEAN
    /\ elim = {}
    /\ \/ /\ exec_requested = FALSE
          /\ \E rows \in Rows(1, NumCand) : ballots = MakeBallots(rows, One)
          /\ exec_ballots = <<>>
       \/ /\ exec_requested = TRUE
          /\ \E rows \in Rows(MaxExecRegular, Min(MaxExecRank, NumCand)) :
                 ballots = MakeBallots(rows, One)
          /\ \E rows \in Rows(MaxExec, Min(MaxTransferRank, NumCand)) :
                 exec_ballots = MakeBallots(rows, Zero)
    /\ real_mass = Zero
    /\ to_eliminate = {}
    /\ remaining_candidates = {}
    /\ count_round = 0
    /\ votes = <<>>
    /\ eliminate = None
    /\ winners = {}
    /\ winners_reported = FALSE
    /\ tie_reported = FALSE
    /\ draws = <<>>
    /\ round_results = <<>>

TransferSpec == TransferInit /\ [][Next]_vars

\* the most rows of either file in the runs of the whole script
MaxRunBallots == 2

\* the whole script as one run: the state when the interpreter starts it
Start ==
    /\ pc = "start"
    /\ reader = <<>>
    /\ row = <<>>
    /\ seats = 1
    /\ break_ties = FALSE
    /\ exec_requested = FALSE
    /\ elim = {}
    /\ ballots = <<>>
    /\ exec_ballots = <<>>
    /\ real_mass = Zero
    /\ to_eliminate = {}
    /\ remaining_candidates = {}
    /\ count_round = 0
    /\ votes = <<>>
    /\ eliminate = None
    /\ winners = {}
    /\ winners_reported = FALSE
    /\ tie_reported = FALSE
    /\ draws = <<>>
    /\ round_results = <<>>

\* the arguments are parsed (lines 117-160)
ParseArgs ==
    /\ pc = "start"
    /\ seats' \in OfficeSeats
    /\ break_ties' \in BOOLEAN
    /\ elim' \in SUBSET (1 .. NumCand)
    /\ exec_requested' \in BOOLEAN
    /\ pc' = "votes"
    /\ UNCHANGED <<reader, row, ballots, exec_ballots, real_mass, to_eliminate,
                   remaining_candidates, count_round, votes, eliminate, winners,
                   winners_reported, tie_reported, draws, round_results>>

\* one row of the votes file becomes a ballot of weight 1.0 (lines 190-251)
ReadBallot ==
    /\ pc = "votes"
    /\ Len(ballots) < MaxRunBallots
    /\ \E r \in Rankings(IF exec_requested THEN Min(MaxExecRank, NumCand) ELSE NumCand) :
           ballots' = ballots \o MakeBallots(<<r>>, One)
    /\ UNCHANGED <<pc, reader, row, seats, break_ties, exec_requested, elim, exec_ballots,
                   real_mass, to_eliminate, remaining_candidates, count_round, votes,
                   eliminate, winners, winners_reported, tie_reported, draws,
                   round_results>>

\* the votes file is at its end (lines 252-265)
EndOfVotes ==
    /\ pc = "votes"
    /\ pc' = IF exec_requested THEN "execs" ELSE "read"
    /\ UNCHANGED <<reader, row, seats, break_ties, exec_requested, elim, ballots,
                   exec_ballots, real_mass, to_eliminate, remaining_candidates,
                   count_round, votes, eliminate, winners, winners_reported,
                   tie_reported, draws, round_results>>

\* one row of the exec votes file becomes a ballot of weight 0.0 (lines 299-340)
ReadExecBallot ==
    /\ pc = "execs"
    /\ Len(exec_ballots) < MaxRunBallots
    /\ \E r \in Rankings(Min(MaxExecRank, NumCand)) :
           exec_ballots' = exec_ballots \o MakeBallots(<<r>>, Zero)
    /\ UNCHANGED <<pc, reader, row, seats, break_ties, exec_requested, elim, ballots,
                   real_mass, to_eliminate, remaining_candidates, count_round, votes,
                   eliminate, winners, winners_reported, tie_reported, draws,
                   round_results>>

\* the exec votes file is at its end (lines 341-347)
EndOfExecs ==
    /\ pc = "execs"
    /\ pc' = "read"
    /\ UNCHANGED <<reader, row, seats, break_ties, exec_requested, elim, ballots,
                   exec_ballots, real_mass, to_eliminate, remaining_candidates,
                   count_round, votes, eliminate, winners, winners_reported,
                   tie_reported, draws, round_results>>

RunNext ==
    \/ ParseArgs
    \/ ReadBallot
    \/ EndOfVotes
    \/ ReadExecBallot
    \/ EndOfExecs
    \/ Next

\* the interpreter runs the script to its end: no statement waits for anything
FairSpec == Start /\ [][RunNext]_vars /\ WF_vars(RunNext)

\* ================================================================= claims
\* helpers of the claims: the round last counted, read off the state
RoundCounted == DOMAIN votes # {}

\* the active set of the round last counted
Active == DOMAIN votes

\* the loser set of the round last counted
Losers == {c \in Active : \A d \in Active : votes[c] <= votes[d]}

\* the candidates named for preemptive elimination, 0-indexed
Preempted == {c \in Candidates : (c + 1) \in elim}

InitialActive == Candidates \ Preempted

\* exact (unrounded) sums
RECURSIVE SumSeq(_)
SumSeq(ws) == IF ws = <<>> THEN 0 ELSE Head(ws) + SumSeq(Tail(ws))

RECURSIVE SumOver(_, _)
SumOver(f, S) ==
    IF S = {} THEN 0
    ELSE LET x == CHOOSE y \in S : TRUE IN f[x] + SumOver(f, S \ {x})

\* C1: every counting round that eliminates removes exactly one member of the
\* active set and adds none; a round that leaves the active set unchanged
\* reports the tie and ends the run; without a round the set is not touched,
\* and nothing moves once the run is over.
C1_MonotonicShrink ==
    [][/\ (pc = "loop" /\ Cardinality(remaining_candidates) > seats) =>
              \/ /\ remaining_candidates' \subseteq remaining_candidates
                 /\ Cardinality(remaining_candidates') = Cardinality(remaining_candidates) - 1
                 /\ remaining_candidates' = remaining_candidates \ {eliminate'}
                 /\ count_round' = count_round + 1
                 /\ ~tie_reported'
                 /\ pc' = "loop"
              \/ /\ remaining_candidates' = remaining_candidates
                 /\ eliminate' = None
                 /\ tie_reported'
                 /\ count_round' = count_round
                 /\ pc' = "done"
       /\ (pc = "loop" /\ Cardinality(remaining_candidates) <= seats) =>
              (remaining_candidates' = remaining_candidates /\ votes' = votes)
       /\ pc = "done" => (pc' = "done" /\ remaining_candidates' = remaining_candidates
                          /\ votes' = votes /\ count_round' = count_round)
      ]_vars

\* C1 witness: a round eliminated a candidate and the next round ended in a tie
C1_Witness ==
    pc = "done" /\ tie_reported /\ count_round = 2
    /\ Cardinality(remaining_candidates) = Cardinality(InitialActive) - 1

\* C2: the round last counted ended the run in a tie, eliminating nobody and
\* leaving the active set as it was, exactly when more than one active
\* candidate had the minimum total, seats + 1 candidates were active and
\* --break-ties was not given.
C2_TieEndIff ==
    RoundCounted =>
        ((tie_reported /\ pc = "done" /\ eliminate = None
          /\ remaining_candidates = Active)
         <=> (Cardinality(Losers) > 1 /\ Cardinality(Active) = seats + 1 /\ ~break_ties))

\* C2 witness: two candidates tied for last place with one seat and no --break-ties
C2_Witness ==
    /\ tie_reported
    /\ seats = 1
    /\ Cardinality(Losers) = 2
    /\ \E c \in Active : votes[c] > 0

C4_EliminatedIsLoser ==
    (RoundCounted /\ eliminate # None) =>
        /\ eliminate \in Losers
        /\ \A c \in Active : votes[eliminate] <= votes[c]
        /\ \A c \in Active : votes[c] > votes[eliminate] => c \in remaining_candidates
        /\ (Cardinality(Losers) = 1 => Losers = {eliminate})
        /\ remaining_candidates = Active \ {eliminate}

\* C4 witness: a single loser below two candidates with different totals
C4_Witness ==
    /\ RoundCounted
    /\ eliminate # None
    /\ Cardinality(Losers) = 1
    /\ \E c, d \in Active : votes[c] > votes[d] /\ votes[d] > votes[eliminate]

\* a ballot none of whose ranked candidates is active in the round last counted
Exhausted(b) == \A i \in 1 .. Len(b.rankings) : b.rankings[i] \notin Active

\* the round's totals plus the exhausted weight, against all the weight cast
Conserved ==
    SumOver(votes, Active) + SumSeq(Weights(SelectSeq(ballots, Exhausted)))
        = SumSeq(Weights(ballots))

\* no += of the round last counted was rounded to Prec digits
NoAdditionRounded ==
    \A i \in 1 .. Len(ballots) :
        LET prev == Tabulate(SubSeq(ballots, 1, i - 1), Active)
            c == FirstActive(ballots[i].rankings, Active)
        IN  c # None => DecAdd(prev[c], ballots[i].weight) = prev[c] + ballots[i].weight

\* C5 (as claimed): in every round the totals plus the exhausted weight equal
\* the weight of all ballots.
C5_Original == RoundCounted => Conserved

\* C5 (amended): in every round none of whose additions was rounded to five
\* significant digits, the totals plus the exhausted weight equal the weight of
\* all ballots.
C5_ConservedWhenExact == (RoundCounted /\ NoAdditionRounded) => Conserved

\* C5 witness: a round with a counted ballot, an exhausted non-empty ballot and
\* an exec ballot of weight 0.5
C5_Witness ==
    /\ RoundCounted
    /\ NoAdditionRounded
    /\ \E i \in 1 .. Len(ballots) : Exhausted(ballots[i]) /\ ballots[i].rankings # <<>>
    /\ \E i \in 1 .. Len(ballots) : ~Exhausted(ballots[i]) /\ 2 * ballots[i].weight = One

\* the ballot b counts for c: c is the first active candidate of its ranking
CountsFor(b, c) ==
    \E i \in 1 .. Len(b.rankings) :
        b.rankings[i] = c /\ \A j \in 1 .. (i - 1) : b.rankings[j] \notin Active

\* C6: every active candidate's total is the sum, as the decimal context adds,
\* of the weights of the ballots whose first active candidate it is, taken in
\* ballot order; no other ballot adds to it.
C6_TotalsByFirstActive ==
    RoundCounted =>
        \A c \in Active :
            LET Mine(b) == CountsFor(b, c)
            IN  votes[c] = DecSum(Weights(SelectSeq(ballots, Mine)))

\* C6 witness: a ballot whose first choice is no longer active counts for a
\* later choice, and another ballot ranks nobody active
C6_Witness ==
    /\ RoundCounted
    /\ \E i \in 1 .. Len(ballots) : \E c \in Active :
           /\ CountsFor(ballots[i], c)
           /\ ballots[i].rankings[1] # c
           /\ votes[c] = ballots[i].weight
    /\ \E i \in 1 .. Len(ballots) : Exhausted(ballots[i])

\* C7: once counting has begun a preemptively eliminated candidate is not
\* active, is no key of the vote totals, is not the one eliminated and is not
\* among the winners.
C7_PreemptedStayOut ==
    pc \in {"loop", "done"} =>
        /\ remaining_candidates \cap Preempted = {}
        /\ Active \cap Preempted = {}
        /\ eliminate \notin Preempted
        /\ winners \cap Preempted = {}

\* C7 witness: a run with a preemptive elimination of a candidate a ballot
\* ranks first, a counted round and reported winners
C7_Witness ==
    /\ pc = "done"
    /\ winners_reported
    /\ RoundCounted
    /\ \E i \in 1 .. Len(ballots) :
           ballots[i].rankings # <<>> /\ ballots[i].rankings[1] \in Preempted

\* the regular ballots of the merged pool
Regular == SubSeq(ballots, 1, Len(ballots) - Len(exec_ballots))

\* M: the weight of the regular ballots that rank somebody, summed as the
\* decimal context sums
Mass == DecSum(Weights(SelectSeq(Regular, NonEmpty)))

Abs(x) == IF x < 0 THEN -x ELSE x

\* C8: after normalization with K >= 1 exec ballots they are the tail of the
\* pool, all carry the weight M / K rounded to five significant digits, and
\* their weights add up to M to within that rounding (a relative error of at
\* most 5 * 10^-5).
C8_ExecWeight ==
    (exec_requested /\ pc \in {"elim", "loop", "done"} /\ Len(exec_ballots) >= 1) =>
        LET K == Len(exec_ballots)
            w == exec_ballots[1].weight
        IN  /\ \A i \in 1 .. K : exec_ballots[i].weight = w
            /\ SubSeq(ballots, Len(ballots) - K + 1, Len(ballots)) = exec_ballots
            /\ real_mass = Mass
            /\ w = DecDiv(Mass, K)
            /\ Abs(K * w - Mass) <= Mass \div 20000

\* C8 witness: three exec ballots share the mass of one regular ballot
C8_Witness ==
    /\ exec_requested
    /\ pc = "elim"
    /\ Len(exec_ballots) = 3
    /\ Mass = One
    /\ 3 * exec_ballots[1].weight # One

\* C9: a run with --exec-votes and no exec ballot dies in the normalization:
\* no round is counted and neither winners nor a tie are reported.
C9_NoExecBallotsFails ==
    (exec_requested /\ Len(exec_ballots) = 0 /\ pc # "read") =>
        /\ pc = "crashed"
        /\ ~RoundCounted
        /\ count_round = 0
        /\ remaining_candidates = {}
        /\ ~winners_reported
        /\ ~tie_reported

\* C9 witness: the run died with regular ballots read
C9_Witness == pc = "crashed" /\ exec_requested /\ Len(ballots) > 0

\* C10: winners are reported only at the end of a run with at most `seats`
\* active candidates and no tie reported; a run that reported a tie has
\* seats + 1 active candidates and reports no winners.
C10_WinnersOnlyWhenDecided ==
    /\ winners_reported =>
           /\ pc = "done"
           /\ Cardinality(remaining_candidates) <= seats
           /\ winners = remaining_candidates
           /\ ~tie_reported
    /\ tie_reported =>
           /\ pc = "done"
           /\ ~winners_reported
           /\ winners = {}
           /\ Cardinality(remaining_candidates) = seats + 1
    /\ pc = "done" => (winners_reported \/ tie_reported)

\* C10 witness: a run for two seats stopped on a tie of all three candidates
C10_Witness ==
    /\ tie_reported
    /\ ~winners_reported
    /\ seats = 2
    /\ Cardinality(remaining_candidates) = 3

\* ------------------------------------------------------------ C11 .. C20
\* the ballot b counts for c when the candidates of `active` are in the race
CountsForIn(b, c, active) ==
    \E i \in 1 .. Len(b.rankings) :
        b.rankings[i] = c /\ \A j \in 1 .. (i - 1) : b.rankings[j] \notin active

\* the totals of a round over `active`, candidate by candidate
TotalsOf(bs, active) ==
    [c \in active |->
        LET Mine(b) == CountsForIn(b, c, active)
        IN  DecSum(Weights(SelectSeq(bs, Mine)))]

LosersOf(v) == {c \in DOMAIN v : \A d \in DOMAIN v : v[c] <= v[d]}

\* the i-th smallest member of S
Nth(S, i) == CHOOSE x \in S : Cardinality({y \in S : y < x}) = i - 1

\* the rounds and the end of a run as a function of the ballots, the seats,
\* the flag, the initial active set and the rng's draws ds
RECURSIVE Replay(_, _, _, _)
Replay(bs, active, ds, out) ==
    IF Cardinality(active) <= seats
    THEN [rounds |-> out, status |-> "DECIDED", remaining |-> active, unused |-> ds]
    ELSE LET v == TotalsOf(bs, active)
             L == LosersOf(v)
         IN  IF Cardinality(L) = 1
             THEN LET c == CHOOSE x \in L : TRUE
                  IN  Replay(bs, active \ {c}, ds, Append(out, [votes |-> v, eliminate |-> c]))
             ELSE IF Cardinality(active) > seats + 1 \/ break_ties
             THEN IF ds = <<>> \/ Head(ds) > Cardinality(L)
                  THEN [rounds |-> out, status |-> "NO_DRAW", remaining |-> active,
                        unused |-> ds]
                  ELSE LET c == Nth(L, Head(ds))
                       IN  Replay(bs, active \ {c}, Tail(ds),
                                  Append(out, [votes |-> v, eliminate |-> c]))
             ELSE [rounds |-> Append(out, [votes |-> v, eliminate |-> None]),
                   status |-> "UNRESOLVED_TIE", remaining |-> active, unused |-> ds]

\* what a finished run showed
Outcome ==
    [rounds |-> round_results,
     status |-> IF tie_reported THEN "UNRESOLVED_TIE" ELSE "DECIDED",
     remaining |-> remaining_candidates,
     unused |-> <<>>]

\* C11: the rounds of a finished run (totals and eliminated candidate of every
\* round), its final status and its remaining set are a function of the
\* ballots in their order, the seats, the preemptive eliminations, the
\* tie-break flag and the sequence of draws, so two runs that agree on these
\* agree on all of it.
C11_Reproducible ==
    pc = "done" => Outcome = Replay(ballots, InitialActive, draws, <<>>)

\* C11 witness: a finished run with two tie-breaks, the first of which did not
\* take the first of the tied candidates
C11_Witness == pc = "done" /\ Len(draws) = 2 /\ draws[1] # 1

\* the regular ballots that rank someone, and the pool without the empty
\* regular ballots
RankedRegular == LET Ranked(b) == b.rankings # <<>> IN SelectSeq(Regular, Ranked)
WithoutAbstentions == RankedRegular \o SubSeq(ballots, Len(Regular) + 1, Len(ballots))

\* C12: the empty regular ballots are inert: M, the weight of every exec
\* ballot and the rounds, eliminations and outcome of the run are those of the
\* pool without its empty regular ballots, so adding empty ballots changes
\* none of them.
C12_AbstentionsInert ==
    /\ pc \in {"elim", "loop", "done"} =>
           /\ real_mass = DecSum(Weights(RankedRegular))
           /\ \A i \in (Len(Regular) + 1) .. Len(ballots) :
                  ballots[i].weight = DecDiv(DecSum(Weights(RankedRegular)), Len(exec_ballots))
    /\ pc = "done" => Outcome = Replay(WithoutAbstentions, InitialActive, draws, <<>>)

\* C12 witness: a finished run with exec ballots whose regular pool holds an
\* empty ballot and a ranked one, and which counted a round
C12_Witness ==
    /\ pc = "done"
    /\ exec_requested
    /\ round_results # <<>>
    /\ \E i, j \in 1 .. Len(Regular) : Regular[i].rankings = <<>> /\ Regular[j].rankings # <<>>

\* the two ends of a run
Decided == pc = "done" /\ ~tie_reported /\ Cardinality(remaining_candidates) <= seats
UnresolvedTie ==
    pc = "done" /\ tie_reported /\ Cardinality(remaining_candidates) = seats + 1

\* the most rounds a run may count: initial active count - seats, none when
\* the seats are not fewer than the initial active candidates
MostRounds ==
    IF Cardinality(InitialActive) > seats THEN Cardinality(InitialActive) - seats ELSE 0

RoundsBounded ==
    /\ Len(round_results) <= MostRounds
    /\ \A k \in 1 .. Len(round_results) :
           Cardinality(DOMAIN round_results[k].votes) > seats
    /\ pc = "done" => (Decided /\ ~UnresolvedTie) \/ (UnresolvedTie /\ ~Decided)

\* C13: a run that reached the counting loop ends; it counts at most
\* (initial active count - seats) rounds, each of them with more than seats
\* active candidates, and it ends in exactly one of DECIDED (active <= seats)
\* and UNRESOLVED_TIE (active = seats + 1).
C13_Terminates == []RoundsBounded /\ ((pc = "loop") ~> (pc = "done"))

\* C13 witness: a run that ended after counting as many rounds as the bound
\* allows, two or more
C13_Witness == pc = "done" /\ Len(round_results) = MostRounds /\ MostRounds >= 2

\* the candidates tied for last place in the round that is about to be counted
LosersNow == LosersOf(TotalsOf(ballots, remaining_candidates))

\* the next round has a tie for last place that chance resolves
TieToBreak ==
    /\ pc = "loop"
    /\ Cardinality(remaining_candidates) > seats
    /\ Cardinality(LosersNow) > 1
    /\ (Cardinality(remaining_candidates) > seats + 1 \/ break_ties)

\* the round removes exactly c and the run goes on to the next loop test
Eliminates(c) ==
    /\ eliminate' = c
    /\ remaining_candidates' = remaining_candidates \ {c}
    /\ pc' = "loop"
    /\ ~tie_reported'

\* the candidates active after round k
ActiveAfter(k) ==
    IF k < Len(round_results) THEN DOMAIN round_results[k + 1].votes
    ELSE remaining_candidates

\* round k had a tie for last place that chance resolves
TieBroken(k) ==
    LET v == round_results[k].votes
    IN  /\ Cardinality(LosersOf(v)) > 1
        /\ (Cardinality(DOMAIN v) > seats + 1 \/ break_ties)

\* C14: when the round to count has a tie for last place and more than
\* seats + 1 candidates are active or ties may be broken, every tied candidate
\* can be the one the round eliminates; and every counted round with such a tie
\* eliminated exactly one candidate, one of the tied ones, and was not the
\* round in which the run stopped with the tie unresolved.
C14_TieBrokenByChance ==
    /\ TieToBreak => \A c \in LosersNow : ENABLED (Next /\ Eliminates(c))
    /\ \A k \in 1 .. Len(round_results) :
           TieBroken(k) =>
               LET r == round_results[k]
               IN  /\ r.eliminate \in LosersOf(r.votes)
                   /\ ActiveAfter(k) = (DOMAIN r.votes) \ {r.eliminate}
                   /\ ~(k = Len(round_results) /\ tie_reported)

\* C14 witness: a tie in the decisive round (seats + 1 active) was broken by
\* chance and the second of the tied candidates was taken
C14_Witness ==
    /\ pc = "loop"
    /\ break_ties
    /\ draws = <<2>>
    /\ Cardinality(DOMAIN votes) = seats + 1
    /\ eliminate \in LosersOf(votes)

\* what a step may do to the ballots
BallotsFrame ==
    /\ \A i \in 1 .. Len(ballots) : i \in 1 .. Len(ballots') /\ ballots'[i] = ballots[i]
    /\ pc # "read" => ballots' = ballots /\ exec_ballots' = exec_ballots
    /\ pc = "read" =>
           /\ round_results = <<>> /\ count_round = 0
           /\ ballots' = IF exec_requested /\ pc' = "elim"
                         THEN ballots \o exec_ballots' ELSE ballots
           /\ Len(exec_ballots') = Len(exec_ballots)
           /\ \A i \in 1 .. Len(exec_ballots) :
                  /\ exec_ballots'[i].rankings = exec_ballots[i].rankings
                  /\ exec_ballots'[i].timestamp = exec_ballots[i].timestamp

\* C15: once the counting has begun no step changes the ballots, their
\* rankings, timestamps or weights; the only step that changes a weight is the
\* normalization, taken once and before round 1, which assigns the weight of
\* the exec ballots and leaves their rankings and timestamps alone; no step
\* changes a regular ballot.
C15_BallotsImmutable == [][BallotsFrame]_vars

\* C15 witness: a run with two or more exec ballots of positive weight ended
\* after two counted rounds
C15_Witness ==
    /\ pc = "done"
    /\ Len(exec_ballots) >= 2
    /\ \A i \in 1 .. Len(exec_ballots) : exec_ballots[i].weight > Zero
    /\ Len(round_results) >= 2

\* C16: a run that ends DECIDED reports its winners; they are exactly seats
\* many when the initial active set had at least seats members, and otherwise
\* no round was counted and the winners are the whole initial active set.
C16_WinnerCount ==
    (pc = "done" /\ ~tie_reported) =>
        /\ winners_reported
        /\ IF Cardinality(InitialActive) >= seats
           THEN Cardinality(winners) = seats
           ELSE winners = InitialActive /\ round_results = <<>>

\* C16 witness: two seats filled after a round was counted among three
\* initially active candidates
C16_Witness ==
    /\ pc = "done"
    /\ winners_reported
    /\ seats = 2
    /\ Cardinality(InitialActive) = 3
    /\ Len(round_results) = 1
    /\ Cardinality(winners) = 2

\* every counted round eliminated a candidate
AllEliminated == \A k \in 1 .. Len(round_results) : round_results[k].eliminate # None

BrokenTiesDecide ==
    break_ties =>
        /\ ~tie_reported
        /\ (pc = "done" /\ seats <= Cardinality(InitialActive)) =>
               /\ Decided
               /\ winners_reported
               /\ Len(round_results) = Cardinality(InitialActive) - seats
               /\ AllEliminated

\* C17: with ties broken by chance in every round, no run reports an
\* unresolved tie, and every run whose seats do not exceed its initial active
\* set ends, DECIDED, after exactly (initial active count - seats) eliminations.
C17_BreakTiesAlwaysDecides ==
    /\ []BrokenTiesDecide
    /\ (pc = "loop" /\ break_ties /\ seats <= Cardinality(InitialActive)) ~> Decided

\* C17 witness: a run with ties broken by chance ended DECIDED and its last
\* round, with seats + 1 candidates, had a tie for last place
C17_Witness ==
    /\ Decided
    /\ break_ties
    /\ winners_reported
    /\ round_results # <<>>
    /\ Cardinality(DOMAIN votes) = seats + 1
    /\ Cardinality(LosersOf(votes)) > 1

\* the ballots that count for c in round 1, and the others, in ballot order
FirstChoiceOf(c) ==
    LET Mine(b) == CountsForIn(b, c, InitialActive) IN SelectSeq(ballots, Mine)
NotFirstChoiceOf(c) ==
    LET Other(b) == ~CountsForIn(b, c, InitialActive) IN SelectSeq(ballots, Other)

\* c is the first active choice on strictly more than half of all the weight
ExactMajority(c) ==
    2 * SumSeq(Weights(FirstChoiceOf(c))) > SumSeq(Weights(ballots))

\* c's round-1 total, as computed, exceeds the running sum, as computed, of the
\* weights of all the other ballots
ComputedMajority(c) ==
    DecSum(Weights(FirstChoiceOf(c))) > DecSum(Weights(NotFirstChoiceOf(c)))

\* c is never eliminated and is the only winner of a finished run
NeverEliminatedSoleWinner(c) ==
    /\ c \in remaining_candidates
    /\ \A k \in 1 .. Len(round_results) : round_results[k].eliminate # c
    /\ pc = "done" => winners_reported /\ winners = {c}

\* C18 (as claimed): with one seat, a candidate that is the first active choice
\* on ballots carrying strictly more than half of the total weight in round 1
\* is never eliminated and is the sole winner.
C18_Original ==
    (pc \in {"loop", "done"} /\ seats = 1) =>
        \A c \in InitialActive : ExactMajority(c) => NeverEliminatedSoleWinner(c)

\* C18: with one seat, a candidate whose round-1 total, computed with 5
\* significant digits, strictly exceeds the 5-significant-digit running sum of
\* the weights of all ballots that do not count for it in round 1 is never
\* eliminated and is the sole winner, whatever the draws.
C18_ComputedMajorityWins ==
    (pc \in {"loop", "done"} /\ seats = 1) =>
        \A c \in InitialActive : ComputedMajority(c) => NeverEliminatedSoleWinner(c)

\* C18 witness: a candidate with the computed majority, part of it the weight
\* of an exec ballot, won a run of two rounds
C18_Witness ==
    /\ pc = "done"
    /\ seats = 1
    /\ Len(round_results) = 2
    /\ \E c \in InitialActive :
           /\ ComputedMajority(c)
           /\ winners = {c}
           /\ \E i \in 1 .. Len(FirstChoiceOf(c)) :
                  FirstChoiceOf(c)[i].weight \notin {Zero, One}

\* C19: a candidate that is active in two consecutive counted rounds has in
\* the later round a total that is at least its total in the earlier one.
C19_TotalsNeverDrop ==
    \A k \in 1 .. (Len(round_results) - 1) :
        \A c \in (DOMAIN round_results[k].votes) \cap (DOMAIN round_results[k + 1].votes) :
            round_results[k + 1].votes[c] >= round_results[k].votes[c]

\* C19 witness: a candidate active in rounds 1 and 2 got, in round 2, the
\* weight of an exec ballot on top of its round-1 total, and the addition was
\* rounded
C19_Witness ==
    /\ Len(round_results) >= 2
    /\ exec_requested
    /\ \E c \in (DOMAIN round_results[1].votes) \cap (DOMAIN round_results[2].votes) :
           /\ round_results[1].votes[c] > Zero
           /\ round_results[2].votes[c] > round_results[1].votes[c]
           /\ LET Mine(b) == CountsForIn(b, c, DOMAIN round_results[2].votes)
              IN  SumSeq(Weights(SelectSeq(ballots, Mine))) # round_results[2].votes[c]

\* the rank the row just read gives to candidate c (column c + 1)
RankOf(r, c) == r[c + 1]

\* the candidates the row r ranks
RankedIn(r) == {c \in Candidates : RankOf(r, c) # NoPreference}

\* the rows r and s rank the same candidates and order every two of them alike
SameOrder(r, s) ==
    /\ RankedIn(r) = RankedIn(s)
    /\ \A c, d \in RankedIn(r) : (RankOf(r, c) < RankOf(r, d)) = (RankOf(s, c) < RankOf(s, d))

\* the ballot built from the row just read
LastBallot == ballots[Len(ballots)]

\* C20: the ranking sequence of the ballot built from a row lists exactly the
\* candidates the row ranks, each once, in ascending rank order, candidates of
\* equal rank in column order; and every row that induces the same order gives
\* the same ranking sequence.
C20_RankingFromResponses ==
    row # <<>> =>
        LET rk == LastBallot.rankings
        IN  /\ {rk[i] : i \in 1 .. Len(rk)} = RankedIn(row)
            /\ Distinct(rk)
            /\ \A i, j \in 1 .. Len(rk) :
                   i < j =>
                       \/ RankOf(row, rk[i]) < RankOf(row, rk[j])
                       \/ RankOf(row, rk[i]) = RankOf(row, rk[j]) /\ rk[i] < rk[j]
            /\ \A other \in ResponseRows : SameOrder(other, row) => BallotChoices(other) = rk

\* C20 witness: a row that ranks all three candidates, two of them equally and
\* behind the third, with a gap in the rank values
C20_Witness ==
    /\ row # <<>>
    /\ Len(LastBallot.rankings) = NumCand
    /\ \E c, d \in Candidates :
           /\ c < d
           /\ RankOf(row, c) = RankOf(row, d)
           /\ \E e \in Candidates : RankOf(row, e) + 1 < RankOf(row, c)
    /\ LastBallot.rankings[1] > LastBallot.rankings[2]

====
